---- MODULE Spec2Model ----
(***************************************************************************)
(* goman: the man page parsing library (package goman).  A man page is     *)
(* loaded from a gzip file, carriage returns are removed, and the roff     *)
(* text is scanned for the NAME, DESCRIPTION, SYNOPSIS and OPTIONS         *)
(* sections.  Text is modelled as a sequence of one-character strings;     *)
(* offsets are Go's 0-based byte offsets (all characters are ASCII).       *)
(*                                                                         *)
(* The library revision modelled is the one whose NewManPage returns a     *)
(* ManPage pointer and an error, the one goman_test.go compiles against.   *)
(***************************************************************************)
EXTENDS Integers, Sequences, FiniteSets, TLC

VARIABLES file, pc, data, Name, Desc, Synopsis, Opts, mc, ret, err, panicMsg

vars == <<file, pc, data, Name, Desc, Synopsis, Opts, mc, ret, err, panicMsg>>

----------------------------------------------------------------------------
(* Go strings and slices *)

Upper == {"A", "B", "C", "D", "E", "F", "G", "H", "I", "J", "K", "L", "M",
          "N", "O", "P", "Q", "R", "S", "T", "U", "V", "W", "X", "Y", "Z"}

\* unicode.IsSpace restricted to the characters a document can hold
WhiteSpace == {" ", "\t", "\n", "\r"}

\* s[lo:hi] is legal in Go iff 0 <= lo <= hi <= len(s); otherwise the
\* runtime panics with "slice bounds out of range"
InRange(s, lo, hi) == 0 <= lo /\ lo <= hi /\ hi <= Len(s)

\* s[lo:hi] when it is legal
Slice(s, lo, hi) == SubSeq(s, lo + 1, hi)

\* s[lo:]
SliceFrom(s, lo) == SubSeq(s, lo + 1, Len(s))

\* the byte s[i] (0-based)
At(s, i) == s[i + 1]

\* strings.HasPrefix(s[i:], p)
PrefixAt(s, i, p) == i + Len(p) <= Len(s) /\ SubSeq(s, i + 1, i + Len(p)) = p

RECURSIVE IndexAnyFrom(_, _, _)
IndexAnyFrom(s, i, chars) ==
    IF i >= Len(s) THEN -1
    ELSE IF At(s, i) \in chars THEN i
    ELSE IndexAnyFrom(s, i + 1, chars)

\* strings.IndexAny(s, chars); strings.Index(s, c) for a one-byte c
IndexAny(s, chars) == IndexAnyFrom(s, 0, chars)

RECURSIVE TrimLeft(_, _)
TrimLeft(s, cutset) ==
    IF Len(s) > 0 /\ Head(s) \in cutset THEN TrimLeft(Tail(s), cutset) ELSE s

RECURSIVE TrimRight(_, _)
TrimRight(s, cutset) ==
    IF Len(s) > 0 /\ s[Len(s)] \in cutset
    THEN TrimRight(SubSeq(s, 1, Len(s) - 1), cutset)
    ELSE s

\* strings.Trim(s, cutset)
Trim(s, cutset) == TrimRight(TrimLeft(s, cutset), cutset)

\* strings.TrimSpace(s)
TrimSpace(s) == Trim(s, WhiteSpace)

\* strings.Split(s, sep)[0] for a one-byte sep
SplitFirst(s, sep) ==
    LET i == IndexAny(s, {sep}) IN IF i = -1 THEN s ELSE Slice(s, 0, i)

\* strings.NewReplacer("\x0D", "").Replace(s)
RemoveCR(s) == SelectSeq(s, LAMBDA c : c # "\r")

----------------------------------------------------------------------------
(* POSIX regular expressions of the scanner.  regexp.MustCompilePOSIX      *)
(* compiles without the OneLine flag, so ^ matches at the start of the     *)
(* text handed to the matcher and after every newline in it; matching is   *)
(* leftmost-longest.                                                       *)

\* ^ at offset i of the text s
LineStart(s, i) == i = 0 \/ At(s, i - 1) = "\n"

RECURSIVE UpperRunEnd(_, _)
UpperRunEnd(s, i) ==
    IF i < Len(s) /\ At(s, i) \in Upper THEN UpperRunEnd(s, i + 1) ELSE i

RECURSIVE SpaceRunEnd(_, _)
SpaceRunEnd(s, i) ==
    IF i < Len(s) /\ At(s, i) = " " THEN SpaceRunEnd(s, i + 1) ELSE i

\* end of the match of `^\.[A-Z]+ ` at offset i of s, or -1
macroReEnd(s, i) ==
    IF LineStart(s, i) /\ i < Len(s) /\ At(s, i) = "."
    THEN LET e == UpperRunEnd(s, i + 1)
         IN  IF e > i + 1 /\ e < Len(s) /\ At(s, e) = " " THEN e + 1 ELSE -1
    ELSE -1

\* the least offset of a non-empty set of offsets
Leftmost(S) == CHOOSE i \in S : \A j \in S : i <= j

\* re.FindStringIndex(s) for `^\.[A-Z]+ `, searching from offset i: the
\* pair idx[0], idx[1], or the empty tuple for nil
macroReFind(s, i) ==
    LET hits == {j \in i..(Len(s) - 1) : macroReEnd(s, j) # -1}
    IN  IF hits = {} THEN <<>>
        ELSE <<Leftmost(hits), macroReEnd(s, Leftmost(hits))>>

\* end of the match of `^\.SH *` + name at offset i of s, or -1; the name
\* pattern is given as the set of its alternatives
sectionReEnd(s, i, names) ==
    IF LineStart(s, i) /\ PrefixAt(s, i, <<".", "S", "H">>)
    THEN LET e == SpaceRunEnd(s, i + 3)
             hits == {n \in names : PrefixAt(s, e, n)}
         IN  IF hits = {} THEN -1
             ELSE e + Len(CHOOSE n \in hits : \A o \in hits : Len(o) <= Len(n))
    ELSE -1

\* re.FindStringIndex(s) for `^\.SH *` + name, searching from offset i
sectionReFind(s, i, names) ==
    LET hits == {j \in i..(Len(s) - 1) : sectionReEnd(s, j, names) # -1}
    IN  IF hits = {} THEN <<>>
        ELSE <<Leftmost(hits), sectionReEnd(s, Leftmost(hits), names)>>

\* end of the match of `^\.[A-Z]+ *` at offset i of s, or -1
stripReEnd(s, i) ==
    IF LineStart(s, i) /\ i < Len(s) /\ At(s, i) = "."
    THEN LET e == UpperRunEnd(s, i + 1)
         IN  IF e > i + 1 THEN SpaceRunEnd(s, e) ELSE -1
    ELSE -1

\* re.ReplaceAllString(s, "") for `^\.[A-Z]+ *`, from offset i on: the
\* text between the matches
RECURSIVE stripReReplace(_, _)
stripReReplace(s, i) ==
    LET hits == {j \in i..(Len(s) - 1) : stripReEnd(s, j) # -1}
    IN  IF hits = {} THEN SliceFrom(s, i)
        ELSE Slice(s, i, Leftmost(hits))
             \o stripReReplace(s, stripReEnd(s, Leftmost(hits)))

----------------------------------------------------------------------------
(* Macro scanner *)

b_macro == 1
ip_macro == 2
pp_macro == 3
sh_macro == 4
tp_macro == 5

\* macro_types[str]: a name that is not in the map gives the zero value
macro_types(str) ==
    IF str = <<"B">> THEN b_macro
    ELSE IF str = <<"I", "P">> THEN ip_macro
    ELSE IF str = <<"P", "P">> THEN pp_macro
    ELSE IF str = <<"S", "H">> THEN sh_macro
    ELSE IF str = <<"T", "P">> THEN tp_macro
    ELSE 0

\* the nil *macro
Nil == [loc |-> <<>>, mtype |-> 0]

\* Go's loc[0] and loc[1] of a macro
Loc0(m) == m.loc[1]
Loc1(m) == m.loc[2]

\* Given an offset return the next roff macro.  The regexp is run on the
\* substring d[offset:], so its ^ also matches at offset itself.
nextmacroOffset(d, offset) ==
    LET idx == macroReFind(SliceFrom(d, offset), 0)
    IN  IF idx # <<>>
        THEN LET index == <<offset + idx[1], offset + idx[2]>>
                 str == Slice(d, index[1] + 1, index[2] - 1)
             IN  [loc |-> index, mtype |-> macro_types(str)]
        ELSE Nil

\* variant of nextmacro that scans from the start of the macro, not its end
nextmacroFromStart(d, m) == nextmacroOffset(d, Loc0(m))

\* Return the next roff macro (nil if not found)
nextmacro(d, m) == nextmacroOffset(d, Loc1(m))

----------------------------------------------------------------------------
(* Section locator and extractor *)

\* variant of findSection that returns idx[0], the start of the match
findSectionStart(d, names) ==
    LET idx == sectionReFind(d, 0, names)
    IN  IF idx # <<>> THEN idx[1] ELSE -1

\* Find the roff section named by the pattern: idx[1] of the first match,
\* or -1 together with a parse_error
findSection(d, names) ==
    LET idx == sectionReFind(d, 0, names)
    IN  IF idx # <<>> THEN idx[2] ELSE -1

\* variant of stripmacros that leaves str as it is (the earlier revision of
\* the library drops the result of ReplaceAllString)
stripmacrosDropped(str) == str

\* Remove roff macros from a str
stripmacros(str) == stripReReplace(str, 0)

NA == <<"N", "/", "A">>

\* the loop of getSection: the first sh_macro at or after m, or nil
RECURSIVE sectionBreak(_, _)
sectionBreak(d, m) ==
    IF m = Nil \/ m.mtype = sh_macro THEN m ELSE sectionBreak(d, nextmacro(d, m))

\* the raw text of the section that starts at offset start
sectionData(d, start) ==
    LET m == sectionBreak(d, nextmacroOffset(d, start))
    IN  IF m = Nil THEN SliceFrom(d, start) ELSE Slice(d, start, Loc0(m))

\* variant of getSection whose initial value is the empty string
getSectionEmptyDefault(d, names) ==
    LET idx == findSection(d, names)
    IN  IF idx # -1
        THEN TrimSpace(stripmacros(sectionData(d, idx)))
        ELSE <<>>

\* Return the roff section named sectname, or "N/A"
getSection(d, names) ==
    LET idx == findSection(d, names)
    IN  IF idx # -1
        THEN TrimSpace(stripmacros(sectionData(d, idx)))
        ELSE TrimSpace(NA)

----------------------------------------------------------------------------
(* Field parsers *)

NAME == <<"N", "A", "M", "E">>
DESCRIPTION == <<"D", "E", "S", "C", "R", "I", "P", "T", "I", "O", "N">>
SYNOPSIS == <<"S", "Y", "N", "O", "P", "S", "I", "S">>
OPTIONS == <<"O", "P", "T", "I", "O", "N", "S">>
SWITCHES == <<"S", "W", "I", "T", "C", "H", "E", "S">>

\* variant of parseName that keeps the first token as it is (the earlier
\* revision of the library)
parseNameNoTrim(d) == SplitFirst(getSection(d, {NAME}), " ")

parseName(d) == TrimRight(SplitFirst(getSection(d, {NAME}), " "), {" ", "\\", ","})

parseDesc(d) == getSection(d, {DESCRIPTION})

parseSynopsis(d) == getSection(d, {SYNOPSIS})

----------------------------------------------------------------------------
(* Option parser *)

\* variant of optsSection that scans the document from its start when no
\* heading is found
optsSectionFromTop(d) ==
    LET idx == findSection(d, {OPTIONS, SWITCHES})
    IN  IF idx # -1 THEN idx
        ELSE IF findSection(d, {DESCRIPTION}) # -1 THEN findSection(d, {DESCRIPTION})
        ELSE 0

\* the two findSection calls of parseOpts: the offset to scan from, or -1
optsSection(d) ==
    LET idx == findSection(d, {OPTIONS, SWITCHES})
    IN  IF idx # -1 THEN idx ELSE findSection(d, {DESCRIPTION})

\* strings.Split(s, "\n")
RECURSIVE Split(_)
Split(s) ==
    LET i == IndexAny(s, {"\n"})
    IN  IF i = -1 THEN <<s>> ELSE <<Slice(s, 0, i)>> \o Split(SliceFrom(s, i + 1))

\* variant of lineCheck without the length test (the earlier revision of
\* the library): line[0] of an empty line is out of range
lineCheckNoLen(line) ==
    IF Len(line) = 0 THEN "panic"
    ELSE IF At(line, 0) = "." THEN "break"
    ELSE "append"

\* the test at the head of the line loop: "break", "append", or "panic"
\* when a byte of the line is read that the line does not have
lineCheck(line) ==
    IF Len(line) = 0 \/ At(line, 0) = "." THEN "break" ELSE "append"

\* the line loop from line k on: opt and whether the loop panicked
RECURSIVE collect(_, _)
collect(lines, k) ==
    IF k > Len(lines) THEN [panic |-> FALSE, opt |-> <<>>]
    ELSE IF lineCheck(lines[k]) = "panic" THEN [panic |-> TRUE, opt |-> <<>>]
    ELSE IF lineCheck(lines[k]) = "break" THEN [panic |-> FALSE, opt |-> <<>>]
    ELSE LET r == collect(lines, k + 1)
         IN  [panic |-> r.panic, opt |-> <<" ">> \o lines[k] \o r.opt]

NoPanic == ""
IndexPanic == "index out of range"
SlicePanic == "slice bounds out of range"

\* the body of the macro loop for a b_macro or ip_macro m: the options it
\* appends (none or one) and the panic it raises (NoPanic if none)
optEntry(d, m) ==
    LET c == collect(Split(SliceFrom(d, Loc1(m))), 1)
        opt == TrimLeft(c.opt, {" "})
        idx == IndexAny(opt, {"-"})
        rel == IF idx # -1 THEN IndexAny(SliceFrom(opt, idx), {"\r", " "}) ELSE -1
        spc == rel + 1
    IN  IF c.panic THEN [panic |-> IndexPanic, opts |-> <<>>]
        ELSE IF idx = -1 \/ rel = -1 THEN [panic |-> NoPanic, opts |-> <<>>]
        ELSE IF ~InRange(opt, idx, spc) \/ ~InRange(opt, spc, Len(opt))
        THEN [panic |-> SlicePanic, opts |-> <<>>]
        ELSE [panic |-> NoPanic,
              opts |-> <<[Name |-> Slice(opt, idx, spc),
                          Desc |-> Trim(SliceFrom(opt, spc), {" "})]>>]

----------------------------------------------------------------------------
(* Input files *)

\* how many pieces of roff text a document is put together from
MaxChunks == 3

\* how many pieces a document of option runs is put together from
MaxRunChunks == 4

\* how many option entries a well-formed page holds
MaxOpts == 3

\* pieces of an OPTIONS section: headings, entries with the dash at
\* different places, a blank line (with a carriage return), a paragraph,
\* an entry whose text begins like a macro
OptChunks ==
    { <<".", "S", "H", " ", "O", "P", "T", "I", "O", "N", "S", "\n">>,
      <<".", "S", "H", " ", "S", "W", "I", "T", "C", "H", "E", "S", "\n">>,
      <<".", "S", "H", " ", "D", "E", "S", "C", "R", "I", "P", "T", "I", "O", "N", "\n">>,
      <<"N", "/", "A", "\n">>,
      <<"\r", "\n">>,
      <<".", "P", "P", " ", "z", "\n">>,
      <<".", "B", " ", "\\", "-", "x", " ", "y", "\n">>,
      <<".", "B", " ", "-", "x", " ", "y", "\n">>,
      <<".", "I", "P", " ", "a", "b", " ", "-", "x", " ", "y", "\t", "\n">>,
      <<".", "B", " ", "a", "b", "c", "d", " ", "-", "x", " ", "y", "\n">>,
      <<".", "B", " ", ".", "B", " ", "-", "x", " ", "y", "\n">> }

\* pieces of the NAME, DESCRIPTION and SYNOPSIS sections
SectChunks ==
    { <<".", "S", "H", " ", "N", "A", "M", "E", "\n">>,
      <<".", "S", "H", " ", "D", "E", "S", "C", "R", "I", "P", "T", "I", "O", "N", "\n">>,
      <<".", "S", "H", " ", "S", "Y", "N", "O", "P", "S", "I", "S", "\n">>,
      <<".", "S", "H", " ", "N", "A", "M", "E", "S", "\n">>,
      <<".", "S", "H", " ", "D", "E", "S", "C", "R", "I", "P", "T", "I", "O", "N", " ", "O", "F", " ", "X", "\n">>,
      <<"f", "o", "o", "\\", ",", "b", "a", "r", "\n">>,
      <<"f", "o", "o", "\\", ",", " ", "b", "a", "r", "\n">>,
      <<"N", "/", "A", "\n">>,
      <<"\r", "\n">>,
      <<".", "B", " ", "\\", "-", "x", " ", "y", "\n">> }

\* pieces of a run of option entries and of what ends it: a paragraph, a
\* tagged paragraph, a macro that is not recognized, a section heading; one
\* entry has its dash far enough into the line for the token slice to fault
RunChunks ==
    { <<".", "S", "H", " ", "O", "P", "T", "I", "O", "N", "S", "\n">>,
      <<".", "S", "H", " ", "D", "E", "S", "C", "R", "I", "P", "T", "I", "O", "N", "\n">>,
      <<".", "B", " ", "\\", "-", "x", " ", "y", "\n">>,
      <<".", "B", " ", "a", "b", "c", "d", " ", "-", "x", " ", "y", "\n">>,
      <<".", "P", "P", " ", "z", "\n">>,
      <<".", "T", "P", " ", "4", "\n">>,
      <<".", "X", "X", " ", "y", "\n">> }

RECURSIVE DocsOfLen(_, _)
DocsOfLen(chunks, n) ==
    IF n = 0 THEN {<<>>}
    ELSE {c \o d : c \in chunks, d \in DocsOfLen(chunks, n - 1)}

Docs(chunks) == UNION {DocsOfLen(chunks, n) : n \in 0..MaxChunks}

\* what the loader finds at the path: a gzip file holding text, no file, a
\* file that is not gzip data, or a gzip file whose stream is damaged
Files(chunks) ==
    {[kind |-> "ok", text |-> t] : t \in Docs(chunks)}
    \cup {[kind |-> k, text |-> t] :
            k \in {"missing", "notgzip", "damaged"}, t \in DocsOfLen(chunks, 1)}

RunDocs == UNION {DocsOfLen(RunChunks, n) : n \in 0..MaxRunChunks}

Flags == {"q", "u", "x"}

PageNames == {<<"f", "o", "o", "b", "a", "r">>, <<"l", "s">>}

Prose == <<"T", "h", "i", "s", " ", "i", "s", " ", "j", "u", "s", "t", " ", "a", " ", "s", "a", "m", "p", "l", "e">>

\* one option entry of a well-formed page; dash is the spelling of the
\* flag's dash, plain or as the roff escape
PageEntry(f, dash) ==
    <<".", "T", "P", "\n", ".", "B", " ">> \o dash \o <<f>> \o <<"\n">> \o <<f>> \o <<" ", "i", "s", " ", "a", "n", " ", "o", "p", "t", "i", "o", "n", "\n">>

RECURSIVE PageEntries(_, _)
PageEntries(fs, dash) ==
    IF fs = <<>> THEN <<>>
    ELSE PageEntry(Head(fs), dash) \o PageEntries(Tail(fs), dash)

Page(name, fs, dash) ==
    <<".", "S", "H", " ", "N", "A", "M", "E", "\n">> \o name \o <<" ", "\\", "-", " ", "s", "u", "m", "m", "a", "r", "y", "\n">>
    \o <<".", "S", "H", " ", "D", "E", "S", "C", "R", "I", "P", "T", "I", "O", "N", "\n">> \o Prose \o <<"\n">>
    \o <<".", "S", "H", " ", "O", "P", "T", "I", "O", "N", "S", "\n">> \o PageEntries(fs, dash)

FlagSeqs == UNION {[1..n -> Flags] : n \in 1..MaxOpts}

Dashes == {<<"-">>, <<"\\", "-">>}

Pages == {Page(n, fs, dash) : n \in PageNames, fs \in FlagSeqs, dash \in Dashes}

----------------------------------------------------------------------------
(* NewManPage *)

Start(f) ==
    /\ file = f
    /\ pc = "Open"
    /\ data = <<>>
    /\ Name = <<>>
    /\ Desc = <<>>
    /\ Synopsis = <<>>
    /\ Opts = <<>>
    /\ mc = Nil
    /\ ret = "none"
    /\ err = "none"
    /\ panicMsg = NoPanic

Init == \E f \in Files(OptChunks) : Start(f)

InitSect == \E f \in Files(SectChunks) : Start(f)

InitRun ==
    \E f \in {[kind |-> "ok", text |-> t] : t \in RunDocs}
              \cup {[kind |-> k, text |-> t] :
                      k \in {"missing", "notgzip", "damaged"}, t \in DocsOfLen(RunChunks, 1)} :
        Start(f)

InitPage == \E t \in Pages : Start([kind |-> "ok", text |-> t])

\* return nil, fmt.Errorf(...)
Fail(e) ==
    /\ pc' = "done"
    /\ ret' = "nil"
    /\ err' = e
    /\ UNCHANGED <<file, data, Name, Desc, Synopsis, Opts, mc, panicMsg>>

Goto(l) ==
    /\ pc' = l
    /\ UNCHANGED <<file, data, Name, Desc, Synopsis, Opts, mc, ret, err, panicMsg>>

\* os.Open(filename)
Open ==
    /\ pc = "Open"
    /\ IF file.kind = "missing" THEN Fail("Error opening man page")
       ELSE Goto("NewReader")

\* gzip.NewReader(fil)
NewReader ==
    /\ pc = "NewReader"
    /\ IF file.kind = "notgzip" THEN Fail("Error building a reader")
       ELSE Goto("ReadAll")

\* variant of ReadAll that drops the error of ioutil.ReadAll
ReadAllIgnoreErr ==
    /\ pc = "ReadAll"
    /\ Goto("parse")

\* ioutil.ReadAll(rdr)
ReadAll ==
    /\ pc = "ReadAll"
    /\ IF file.kind = "damaged" THEN Fail("Error reading gzip data")
       ELSE Goto("parse")

\* parse: remove carriage returns
parse ==
    /\ pc = "parse"
    /\ data' = RemoveCR(file.text)
    /\ pc' = "parseName"
    /\ UNCHANGED <<file, Name, Desc, Synopsis, Opts, mc, ret, err, panicMsg>>

ParseName ==
    /\ pc = "parseName"
    /\ Name' = parseName(data)
    /\ pc' = "parseDesc"
    /\ UNCHANGED <<file, data, Desc, Synopsis, Opts, mc, ret, err, panicMsg>>

ParseDesc ==
    /\ pc = "parseDesc"
    /\ Desc' = parseDesc(data)
    /\ pc' = "parseSynopsis"
    /\ UNCHANGED <<file, data, Name, Synopsis, Opts, mc, ret, err, panicMsg>>

ParseSynopsis ==
    /\ pc = "parseSynopsis"
    /\ Synopsis' = parseSynopsis(data)
    /\ pc' = "parseOpts"
    /\ UNCHANGED <<file, data, Name, Desc, Opts, mc, ret, err, panicMsg>>

\* parseOpts up to the first macro of the section
ParseOpts ==
    /\ pc = "parseOpts"
    /\ IF optsSection(data) = -1
       THEN pc' = "return" /\ mc' = mc
       ELSE pc' = "optsLoop" /\ mc' = nextmacroOffset(data, optsSection(data))
    /\ UNCHANGED <<file, data, Name, Desc, Synopsis, Opts, ret, err, panicMsg>>

\* variant of ParseOptsLoop that goes on to the next macro, instead of
\* leaving the loop, at a macro that is neither b_macro nor ip_macro
ParseOptsLoopContinue ==
    /\ pc = "optsLoop"
    /\ IF mc = Nil \/ mc.mtype = sh_macro
       THEN pc' = "return" /\ UNCHANGED <<Opts, mc, panicMsg>>
       ELSE IF ~(mc.mtype = b_macro \/ mc.mtype = ip_macro)
       THEN mc' = nextmacro(data, mc) /\ UNCHANGED <<pc, Opts, panicMsg>>
       ELSE LET r == optEntry(data, mc)
            IN  IF r.panic # NoPanic
                THEN pc' = "panic" /\ panicMsg' = r.panic /\ UNCHANGED <<Opts, mc>>
                ELSE /\ Opts' = Opts \o r.opts
                     /\ mc' = nextmacro(data, mc)
                     /\ UNCHANGED <<pc, panicMsg>>
    /\ UNCHANGED <<file, data, Name, Desc, Synopsis, ret, err>>

\* one pass of the macro loop of parseOpts
ParseOptsLoop ==
    /\ pc = "optsLoop"
    /\ IF mc = Nil \/ mc.mtype = sh_macro \/ ~(mc.mtype = b_macro \/ mc.mtype = ip_macro)
       THEN pc' = "return" /\ UNCHANGED <<Opts, mc, panicMsg>>
       ELSE LET r == optEntry(data, mc)
            IN  IF r.panic # NoPanic
                THEN pc' = "panic" /\ panicMsg' = r.panic /\ UNCHANGED <<Opts, mc>>
                ELSE /\ Opts' = Opts \o r.opts
                     /\ mc' = nextmacro(data, mc)
                     /\ UNCHANGED <<pc, panicMsg>>
    /\ UNCHANGED <<file, data, Name, Desc, Synopsis, ret, err>>

\* return &man, nil
Return ==
    /\ pc = "return"
    /\ pc' = "done"
    /\ ret' = "man"
    /\ err' = "nil"
    /\ UNCHANGED <<file, data, Name, Desc, Synopsis, Opts, mc, panicMsg>>

Next ==
    \/ Open
    \/ NewReader
    \/ ReadAll
    \/ parse
    \/ ParseName
    \/ ParseDesc
    \/ ParseSynopsis
    \/ ParseOpts
    \/ ParseOptsLoop
    \/ Return

Spec == Init /\ [][Next]_vars

SpecSect == InitSect /\ [][Next]_vars

SpecRun == InitRun /\ [][Next]_vars

SpecPage == InitPage /\ [][Next]_vars

----------------------------------------------------------------------------
(* Properties *)

\* mc is a macro whose entry the loop of parseOpts is about to process
AtEntry == pc = "optsLoop" /\ mc # Nil /\ (mc.mtype = b_macro \/ mc.mtype = ip_macro)

\* the options a page with the flags fs is expected to give
PageOpts(fs) ==
    [i \in 1..Len(fs) |-> [Name |-> <<"-", fs[i]>>,
                           Desc |-> <<fs[i]>> \o <<" ", "i", "s", " ", "a", "n", " ", "o", "p", "t", "i", "o", "n">>]]

\* C1: a page made of a NAME section "<name> \- summary", a DESCRIPTION
\* section of one prose line and an OPTIONS section of n >= 1 entries
\* (.TP, .B -f, "f is an option") parses to Name = <name>, Desc = the
\* prose and Opts = the n pairs (-f, "f is an option") in document order.
C1_EndToEnd ==
    pc \in {"done", "panic"} =>
        \A n \in PageNames, fs \in FlagSeqs :
            file.text = Page(n, fs, <<"-">>) =>
                /\ pc = "done"
                /\ Name = n
                /\ Desc = Prose
                /\ Opts = PageOpts(fs)

\* the same pages with the dash of every flag written as the roff escape
\* \- : these do parse to the expected record
C1_EscapedDash ==
    pc \in {"done", "panic"} =>
        \A n \in PageNames, fs \in FlagSeqs :
            file.text = Page(n, fs, <<"\\", "-">>) =>
                /\ pc = "done"
                /\ Name = n
                /\ Desc = Prose
                /\ Opts = PageOpts(fs)

\* C2: once the text is loaded, no step of parseName, parseDesc,
\* parseSynopsis or parseOpts faults, whatever the document is.
C2_ParseNeverFaults == pc # "panic" /\ panicMsg = NoPanic

\* C3: a load failure (no file, not gzip, damaged stream) is returned to
\* the caller as a non-nil error with a nil record and no parsing step
\* runs; when NewManPage returns after a successful load it returns the
\* record with a nil error.
C3_LoadErrorSurfaced ==
    /\ file.kind # "ok" =>
          /\ pc \in {"Open", "NewReader", "ReadAll", "done"}
          /\ ret # "man"
          /\ data = <<>> /\ Name = <<>> /\ Desc = <<>> /\ Synopsis = <<>>
          /\ Opts = <<>>
    /\ pc = "done" =>
          IF file.kind = "ok"
          THEN ret = "man" /\ err = "nil"
          ELSE ret = "nil" /\ err \notin {"none", "nil"}

C3_Witness ==
    /\ pc = "done"
    /\ file.kind = "damaged"
    /\ file.text # <<>>
    /\ ret = "nil"
    /\ err = "Error reading gzip data"

SectionNames == {{NAME}, {DESCRIPTION}, {SYNOPSIS}, {OPTIONS, SWITCHES}}

\* the text t reads N/A somewhere
ReadsNA(t) == \E i \in 0..Len(t) : PrefixAt(t, i, NA)

\* C4 as stated: getSection returns "N/A" if and only if findSection fails
\* for that name.
C4_SentinelIff ==
    pc = "parseName" =>
        \A names \in SectionNames :
            getSection(data, names) = NA <=> findSection(data, names) = -1

\* C4 amended: getSection returns "N/A" whenever findSection fails; for a
\* heading that is found it returns "N/A" only when the section's own text
\* reads N/A, and the empty string when the section holds only white space.
C4_SentinelAmended ==
    pc = "parseName" =>
        \A names \in SectionNames :
            LET idx == findSection(data, names)
                got == getSection(data, names)
                body == sectionData(data, idx)
            IN  IF idx = -1 THEN got = NA
                ELSE /\ got = NA => ReadsNA(body)
                     /\ (\A i \in 1..Len(body) : body[i] \in WhiteSpace)
                            => got = <<>>

C4_Witness ==
    /\ pc = "parseSynopsis"
    /\ findSection(data, {NAME}) # -1
    /\ Name = NA
    /\ findSection(data, {DESCRIPTION}) = -1
    /\ Desc = NA

\* parseName has just returned for a page whose NAME section is found and
\* whose text, trimmed, is body
NameBodyIs(body) ==
    /\ pc = "parseDesc"
    /\ LET idx == findSection(data, {NAME})
       IN  idx # -1 /\ TrimSpace(sectionData(data, idx)) = body

\* C5 as stated: a NAME body foo\,bar gives Name = "foo".
C5_NameArtifactCut ==
    NameBodyIs(<<"f", "o", "o", "\\", ",", "b", "a", "r">>) => Name = <<"f", "o", "o">>

\* C5 amended: a NAME body foo\,bar gives Name = foo\,bar, because the
\* backslash and comma are removed only where they end the first token, as
\* in the body "foo\, bar", which gives Name = "foo".
C5_NameArtifactTrailing ==
    /\ NameBodyIs(<<"f", "o", "o", "\\", ",", "b", "a", "r">>) => Name = <<"f", "o", "o", "\\", ",", "b", "a", "r">>
    /\ NameBodyIs(<<"f", "o", "o", "\\", ",", " ", "b", "a", "r">>) => Name = <<"f", "o", "o">>

C5_Witness ==
    /\ NameBodyIs(<<"f", "o", "o", "\\", ",", " ", "b", "a", "r">>)
    /\ Name = <<"f", "o", "o">>

\* C6: every appended option has a non-empty token that begins with '-',
\* and a description with no white space at either end.
C6_OptionShape ==
    \A i \in 1..Len(Opts) :
        /\ Opts[i].Name # <<>>
        /\ Head(Opts[i].Name) = "-"
        /\ Opts[i].Desc # <<>> =>
              /\ Head(Opts[i].Desc) \notin WhiteSpace
              /\ Opts[i].Desc[Len(Opts[i].Desc)] \notin WhiteSpace

\* the macros from m on, in the order nextmacro gives them
RECURSIVE MacroChain(_, _)
MacroChain(d, m) ==
    IF m = Nil THEN <<>> ELSE <<m>> \o MacroChain(d, nextmacro(d, m))

\* C7: every macro the scanner returns is non-empty and lies at or after
\* the offset scanned from, the macro after it starts at or after its end,
\* and so the macros of a document are fewer than its bytes.
C7_MacroMonotonic ==
    /\ pc = "parseName" =>
          /\ \A off \in 0..Len(data) :
                LET m == nextmacroOffset(data, off)
                IN  m # Nil =>
                       /\ off <= Loc0(m)
                       /\ Loc0(m) < Loc1(m)
                       /\ Loc1(m) <= Len(data)
                       /\ nextmacro(data, m) # Nil =>
                              Loc1(m) <= Loc0(nextmacro(data, m))
          /\ Len(MacroChain(data, nextmacroOffset(data, 0))) <= Len(data)
    /\ (pc = "optsLoop" /\ mc # Nil) =>
          /\ Loc0(mc) < Loc1(mc)
          /\ nextmacro(data, mc) # Nil => Loc1(mc) <= Loc0(nextmacro(data, mc))

C7_Witness ==
    /\ pc = "optsLoop"
    /\ Len(Opts) >= 1
    /\ mc # Nil
    /\ mc.mtype = pp_macro

\* some line of d is a .SH heading for one of the names
HasHeading(d, names) == \E i \in 0..Len(d) : sectionReEnd(d, i, names) # -1

\* C8: a document with no OPTIONS, SWITCHES or DESCRIPTION heading gets no
\* options and no fault; its Name and Synopsis are computed as usual and the
\* record is returned.
C8_NoOptionSection ==
    (file.kind = "ok"
        /\ ~HasHeading(RemoveCR(file.text), {OPTIONS, SWITCHES, DESCRIPTION})) =>
        /\ pc \notin {"optsLoop", "panic"}
        /\ Opts = <<>>
        /\ pc \in {"return", "done"} =>
              /\ Name = parseName(data)
              /\ Synopsis = parseSynopsis(data)
        /\ pc = "done" => ret = "man"

C8_Witness ==
    /\ pc = "done"
    /\ ~HasHeading(data, {OPTIONS, SWITCHES, DESCRIPTION})
    /\ nextmacroOffset(data, 0) # Nil
    /\ Name = <<"f", "o", "o">>
    /\ Opts = <<>>

\* the lines read by the line loop for the macro m
EntryLines(d, m) == Split(SliceFrom(d, Loc1(m)))

\* the lines before the first line that is empty or starts with '.'
EntryKept(lines) ==
    LET stops == {k \in 1..Len(lines) : lines[k] = <<>> \/ Head(lines[k]) = "."}
    IN  IF stops = {} THEN lines ELSE SubSeq(lines, 1, Leftmost(stops) - 1)

\* every line with a blank before it
RECURSIVE Joined(_)
Joined(lines) ==
    IF lines = <<>> THEN <<>> ELSE <<" ">> \o Head(lines) \o Joined(Tail(lines))

\* the collected, left-trimmed text of the entry of m
EntryText(d, m) == TrimLeft(Joined(EntryKept(EntryLines(d, m))), {" "})

\* C9: for an entry whose text holds a '-' with white space after it, the
\* option appended has as token the text from the first '-' up to the first
\* white space after it, and as description the rest, trimmed.
C9_TokenSplit ==
    [][AtEntry =>
        LET opt == EntryText(data, mc)
            idx == IndexAny(opt, {"-"})
            end == IndexAnyFrom(opt, idx, WhiteSpace)
        IN  (idx # -1 /\ end # -1) =>
                Opts' = Append(Opts, [Name |-> Slice(opt, idx, end),
                                      Desc |-> TrimSpace(SliceFrom(opt, end))])
      ]_vars

\* C10: the line loop never reads a byte of an empty line: it ends at the
\* first line that is empty or starts with '.', and what it has collected
\* is the lines before that one.
C10_EmptyLineEnds ==
    /\ panicMsg # IndexPanic
    /\ AtEntry =>
          LET c == collect(EntryLines(data, mc), 1)
          IN  ~c.panic /\ c.opt = Joined(EntryKept(EntryLines(data, mc)))

C10_Witness ==
    /\ pc = "done"
    /\ data = <<".", "S", "H", " ", "O", "P", "T", "I", "O", "N", "S", "\n", ".", "B", " ", "\\", "-", "x", " ", "y", "\n", "\n">>
    /\ Opts = <<[Name |-> <<"-", "x">>, Desc |-> <<"y">>]>>

\* the heading line for one of the names that findSection matches: the
\* first line start i of d followed by .SH, blanks ending at offset k, and a
\* name n; the match ends at k + Len(n)
HeadingAt(d, i, k, n) ==
    /\ LineStart(d, i)
    /\ PrefixAt(d, i, <<".", "S", "H">>)
    /\ i + 3 <= k
    /\ \A j \in (i + 3)..(k - 1) : At(d, j) = " "
    /\ PrefixAt(d, k, n)

\* the offset off is the end of a line of d: at a newline or at the end
LineEnd(d, off) == off = Len(d) \/ At(d, off) = "\n"

\* C11 as stated: the offset findSection returns is the one after the whole
\* heading line, so that nothing of the heading line follows it.
C11_AfterHeadingLine ==
    pc = "parseName" =>
        \A names \in SectionNames :
            findSection(data, names) # -1 => LineEnd(data, findSection(data, names))

\* C11 amended: the offset findSection returns is the one right after the
\* section name of the first heading line that matches; it is the end of
\* that line only when nothing follows the name on it.
C11_AfterSectionName ==
    pc = "parseName" =>
        \A names \in SectionNames :
            LET off == findSection(data, names)
            IN  off # -1 =>
                  \E n \in names, i \in 0..Len(data), k \in 0..Len(data) :
                      /\ HeadingAt(data, i, k, n)
                      /\ off = k + Len(n)
                      /\ \A j \in 0..(i - 1), l \in 0..i, o \in names :
                            ~HeadingAt(data, j, l, o)

C11_Witness ==
    /\ pc = "parseSynopsis"
    /\ data = <<".", "S", "H", " ", "D", "E", "S", "C", "R", "I", "P", "T", "I", "O", "N", " ", "O", "F", " ", "X", "\n", "N", "/", "A", "\n">>
    /\ findSection(data, {DESCRIPTION}) = 15
    /\ Desc = <<"O", "F", " ", "X", "\n", "N", "/", "A">>

\* the macros getSection walks for the names, from the offset findSection
\* returns
SectionMacros(d, names) ==
    IF findSection(d, names) = -1 THEN <<>>
    ELSE MacroChain(d, nextmacroOffset(d, findSection(d, names)))

\* C12: every macro the scanner returns to getSection, parseOpts and
\* nextmacro begins at a line start of the document: at offset 0 or right
\* after a newline.
C12_MacroAtLineStart ==
    /\ (pc = "optsLoop" /\ mc # Nil) => LineStart(data, Loc0(mc))
    /\ pc = "parseName" =>
          \A names \in {{NAME}, {DESCRIPTION}, {SYNOPSIS}} :
              \A i \in 1..Len(SectionMacros(data, names)) :
                  LineStart(data, Loc0(SectionMacros(data, names)[i]))

\* the line starts with a macro token: '.' and an upper-case letter
IsMacroLine(line) == Len(line) >= 2 /\ line[1] = "." /\ line[2] \in Upper

\* the line without its macro token and the blanks after the token
WithoutToken(line) ==
    IF IsMacroLine(line) THEN SliceFrom(line, SpaceRunEnd(line, UpperRunEnd(line, 1)))
    ELSE line

\* the lines with a newline between them
RECURSIVE JoinLines(_)
JoinLines(lines) ==
    IF Len(lines) = 0 THEN <<>>
    ELSE IF Len(lines) = 1 THEN lines[1]
    ELSE lines[1] \o <<"\n">> \o JoinLines(Tail(lines))

\* the text has white space at neither end
IsTrimmed(t) == t # <<>> => (Head(t) \notin WhiteSpace /\ t[Len(t)] \notin WhiteSpace)

\* C13 as stated: the body of a found section holds no text of a macro line,
\* every macro line being removed whole, and has white space at neither end.
C13_MacroLinesRemoved ==
    pc = "parseName" =>
        \A names \in {{NAME}, {DESCRIPTION}, {SYNOPSIS}} :
            findSection(data, names) # -1 =>
                LET lines == Split(sectionData(data, findSection(data, names)))
                    kept == SelectSeq(lines, LAMBDA l : ~IsMacroLine(l))
                IN  /\ getSection(data, names) = TrimSpace(JoinLines(kept))
                    /\ IsTrimmed(getSection(data, names))

\* C13 amended: the body of a found section has the macro token and the
\* blanks after it removed from every line that starts with one, the rest of
\* such a line (the macro's arguments) staying in the body, and has white
\* space at neither end.
C13_MacroTokensRemoved ==
    pc = "parseName" =>
        \A names \in {{NAME}, {DESCRIPTION}, {SYNOPSIS}} :
            findSection(data, names) # -1 =>
                LET lines == Split(sectionData(data, findSection(data, names)))
                    kept == [i \in 1..Len(lines) |-> WithoutToken(lines[i])]
                IN  /\ getSection(data, names) = TrimSpace(JoinLines(kept))
                    /\ IsTrimmed(getSection(data, names))

C13_Witness ==
    /\ pc = "parseSynopsis"
    /\ data = <<".", "S", "H", " ", "D", "E", "S", "C", "R", "I", "P", "T", "I", "O", "N", "\n", ".", "B", " ", "\\", "-", "x", " ", "y", "\n">>
    /\ Desc = <<"\\", "-", "x", " ", "y">>

\* the offset parseOpts scans from: after the first OPTIONS or SWITCHES
\* heading, after the DESCRIPTION heading when there is neither, else -1
ChosenHeading(d) ==
    IF HasHeading(d, {OPTIONS, SWITCHES}) THEN findSection(d, {OPTIONS, SWITCHES})
    ELSE IF HasHeading(d, {DESCRIPTION}) THEN findSection(d, {DESCRIPTION})
    ELSE -1

\* the macros at the head of the chain that are b_macro or ip_macro
RECURSIVE OptionRun(_)
OptionRun(chain) ==
    IF chain = <<>> \/ ~(Head(chain).mtype \in {b_macro, ip_macro}) THEN <<>>
    ELSE <<Head(chain)>> \o OptionRun(Tail(chain))

\* the options of the entries of the macros, in their order
RECURSIVE RunOpts(_, _)
RunOpts(d, run) ==
    IF run = <<>> THEN <<>> ELSE optEntry(d, Head(run)).opts \o RunOpts(d, Tail(run))

\* the unbroken run of option macros after the chosen heading
HeadRun(d) ==
    IF ChosenHeading(d) = -1 THEN <<>>
    ELSE OptionRun(MacroChain(d, nextmacroOffset(d, ChosenHeading(d))))

\* C14: parseOpts takes the macros after the chosen heading in document
\* order and stops at the first that is a section heading or is neither
\* b_macro nor ip_macro: when it returns, the options are those of the
\* unbroken run of b_macro and ip_macro macros at the start of the section,
\* in order, with duplicates kept; while it runs they are those of the
\* macros of that run before the current one.
C14_OptionRun ==
    LET run == HeadRun(data)
    IN  /\ pc \in {"return", "done"} => Opts = RunOpts(data, run)
        /\ pc \in {"optsLoop", "panic"} =>
              \E k \in 0..Len(run) :
                  /\ Opts = RunOpts(data, SubSeq(run, 1, k))
                  /\ mc = IF k < Len(run) THEN run[k + 1]
                          ELSE IF k = 0 THEN nextmacroOffset(data, ChosenHeading(data))
                          ELSE nextmacro(data, run[k])

C14_Witness ==
    /\ pc = "done"
    /\ data = <<".", "S", "H", " ", "O", "P", "T", "I", "O", "N", "S", "\n", ".", "B", " ", "\\", "-", "x", " ", "y", "\n", ".", "P", "P", " ", "z", "\n", ".", "B", " ", "\\", "-", "x", " ", "y", "\n">>
    /\ Opts = <<[Name |-> <<"-", "x">>, Desc |-> <<"y">>]>>

====
